---- MODULE Spec2Model ----
(***************************************************************************)
(* Model of the watch-party room service of MovieMate                      *)
(* (src/backend/main.py, class PartyService and the /party endpoints)      *)
(* and of its recommendation engine.                                       *)
(*                                                                         *)
(* The party_rooms table is a sequence of rows in insertion order (the     *)
(* row's position is its autoincrement id).  The members column holds      *)
(* text: json.dumps of a list of member dicts.  The joined_at timestamp    *)
(* of a member is not modelled: no handler reads it.                       *)
(*                                                                         *)
(* The second part models one /recommendations request: the endpoint,     *)
(* class RecommendationEngine and the TMDBService calls it makes.          *)
(*                                                                         *)
(* The third part models the /movies endpoints on the movies table, and    *)
(* the fourth the cache of class TMDBService.                              *)
(***************************************************************************)
EXTENDS Integers, Sequences, FiniteSets, TLC

\* ------------------------------------------------------------ bounds
\* number of distinct outcomes of random.choices the model enumerates
MaxSeed == 1

\* largest number of rows in the movies table of a recommendations request
MaxItems == 2

\* largest max_results of a recommendations request
MaxResults == 2

\* largest number of rows the movies table holds
MaxMovies == 2

\* how many times the clock of the cache advances
MaxTicks == 4

\* ------------------------------------------------- program constants
\* k=6 in generate_room_code
CodeLen == 6

\* the alphabet generate_room_code draws from
Alphabet ==
  << "A", "B", "C", "D", "E", "F", "G", "H", "I", "J", "K", "L", "M",
     "N", "O", "P", "Q", "R", "S", "T", "U", "V", "W", "X", "Y", "Z",
     "0", "1", "2", "3", "4", "5", "6", "7", "8", "9" >>

HTTP_OK == 200
HTTP_BAD_REQUEST == 400
HTTP_NOT_FOUND == 404
HTTP_ERROR == 500

\* minutes of an episode
EPISODE_DURATION_MINUTES == 20

\* ------------------------------------------------------------ inputs
UserIds == {"h1", "u1", "u2"}
UserNames == {"Ann"}
MovieIds == {5}
SyncActions == {"play", "pause", "seek"}
Seeds == 1..MaxSeed

\* the call signatures of discover_by_genre the model looks up: <<genre_id, page>>
CacheKeys == {<<28, 1>>, <<35, 1>>}

\* ------------------------------------------------------------- state
VARIABLES
  rooms,     \* the party_rooms table: a sequence of rows
  resp,      \* the response of the last request served
  sessions,  \* per worker: the request it holds between its query and its commit
  joined,    \* <<code, user_id>> pairs whose latest answered join or leave was a join
  user_movies,      \* the movies table as the recommendations request reads it
  max_results,      \* the max_results parameter of the recommendations request
  rec_pc,           \* where the recommendations request stands
  top_genres,       \* top_genres of _get_genre_based_recommendations
  genre_idx,        \* position in top_genres of the next genre pass
  recommendations,  \* the staged list of recommendations
  calls,            \* the calls made to the TMDB service so far, in order
  failed,           \* the TMDB calls of the latest pass that failed
  offered,          \* the ids of the results the latest pass was given
  rec_resp,         \* the RecommendationResponse, once returned
  db_movies,        \* the movies table: a sequence of rows in insertion order
  media_resp,       \* the last /movies request served and its response
  credentials,      \* whether the TMDB service was built with an API key or a token
  cache,            \* TMDBService._cache: per cache key, no entry or (cache_time, data)
  now,              \* datetime.now(), in minutes
  lookup            \* the last call of the TMDB service and what it returned

party_vars == <<rooms, resp, sessions, joined>>

rec_vars == <<user_movies, max_results, rec_pc, top_genres, genre_idx,
              recommendations, calls, failed, offered, rec_resp>>

media_vars == <<db_movies, media_resp>>

cache_vars == <<credentials, cache, now, lookup>>

vars == <<party_vars, rec_vars, media_vars, cache_vars>>

\* the workers that serve requests at the same time
Workers == {"w1", "w2"}

\* ----------------------------------------------------- pure helpers
\* faulty variant of generate_room_code: one character short
generate_room_code_short(seed) ==
  [i \in 1..(CodeLen - 1) |-> Alphabet[(((seed - 1) * 11 + i * 5) % Len(Alphabet)) + 1]]

\* random.choices(alphabet, k=6) for one outcome of the random source
generate_room_code(seed) ==
  [i \in 1..CodeLen |-> Alphabet[(((seed - 1) * 11 + i * 5) % Len(Alphabet)) + 1]]

GenCodes == {generate_room_code(s) : s \in Seeds}

\* codes a request may carry: every code that can be drawn, and one that
\* is never drawn
ReqCodes == GenCodes \cup {<<"Z", "Z", "Z">>}

\* a member dict
Member(id, name, is_host) == [id |-> id, name |-> name, is_host |-> is_host]

\* json.dumps of a list of member dicts: the stored text, one tuple per dict
json_dumps(members) ==
  [i \in 1..Len(members) |->
     <<members[i].id, members[i].name, members[i].is_host>>]

\* json.loads of the stored text
json_loads(text) ==
  [i \in 1..Len(text) |-> Member(text[i][1], text[i][2], text[i][3])]

\* a row of party_rooms
PartyRoom(code, movie_id, host_id, is_active, members) ==
  [code |-> code, movie_id |-> movie_id, host_id |-> host_id,
   is_active |-> is_active, members |-> members]

\* db.query(PartyRoom).filter(code == c, is_active == True).first():
\* the position of the first matching row, 0 for None
query_active(rs, code) ==
  LET hits == {i \in 1..Len(rs) : rs[i].code = code /\ rs[i].is_active}
  IN IF hits = {} THEN 0 ELSE CHOOSE i \in hits : \A j \in hits : i <= j

\* db.query(PartyRoom).filter(code == c).first()
query_code(rs, code) ==
  LET hits == {i \in 1..Len(rs) : rs[i].code = code}
  IN IF hits = {} THEN 0 ELSE CHOOSE i \in hits : \A j \in hits : i <= j

\* [member for member in members if member["id"] != user_id]
RECURSIVE filter_out(_, _)
filter_out(members, user_id) ==
  IF members = <<>> THEN <<>>
  ELSE LET rest == filter_out(Tail(members), user_id)
       IN IF Head(members).id # user_id THEN <<Head(members)>> \o rest ELSE rest

\* the room as the endpoints serialise it (members parsed for the response)
RoomView(rs, i) ==
  [id |-> i, code |-> rs[i].code, movie_id |-> rs[i].movie_id,
   host_id |-> rs[i].host_id, is_active |-> rs[i].is_active,
   members |-> json_loads(rs[i].members)]

\* what a handler yields: the HTTP status, the table after it, the room returned
Result(status, rs, room) == [status |-> status, rooms |-> rs, room |-> room]

\* ------------------------------------------------- the unit of work
\* What a handler has staged on its session when it reaches db.commit():
\* the row it loaded (0: none) and the columns it assigned.  The ORM's
\* UPDATE sets only the assigned columns of that row.
Write(id, set_members, set_active) ==
  [id |-> id, set_members |-> set_members, set_active |-> set_active]

NoWrite == Write(0, <<>>, <<>>)

\* what a handler has decided before db.commit(): the status and the write
Staged(status, write) == [status |-> status, write |-> write]

\* faulty variant of flush: the UPDATE keeps the stored entries that the
\* written list lacks instead of replacing the column
flush_merge(rs, w) ==
  IF w.id = 0 THEN rs
  ELSE [rs EXCEPT ![w.id] =
          [@ EXCEPT !.members =
                      IF w.set_members = <<>> THEN @
                      ELSE LET written == w.set_members[1]
                               kept == SelectSeq(@, LAMBDA m :
                                         \A k \in 1..Len(written) : written[k] # m)
                           IN kept \o written,
                    !.is_active = IF w.set_active = <<>> THEN @ ELSE w.set_active[1]]]

\* db.commit(): UPDATE party_rooms SET <assigned columns> WHERE id = w.id
flush(rs, w) ==
  IF w.id = 0 THEN rs
  ELSE [rs EXCEPT ![w.id] =
          [@ EXCEPT !.members = IF w.set_members = <<>> THEN @ ELSE w.set_members[1],
                    !.is_active = IF w.set_active = <<>> THEN @ ELSE w.set_active[1]]]

\* Column(String, unique=True) on PartyRoom.code: an INSERT of a code that a
\* row already carries fails at commit
unique_code_ok(rs, code) == query_code(rs, code) = 0

\* ---------------------------------------------------- PartyService
\* faulty variant of create_party_room: the code column carries no unique
\* constraint
create_party_room_nounique(rs, seed, movie_id, host_id) ==
  LET code == generate_room_code(seed)
      members == <<Member(host_id, "Host", TRUE)>>
      added == Append(rs, PartyRoom(code, movie_id, host_id, TRUE, json_dumps(members)))
  IN Result(HTTP_OK, added, <<RoomView(added, Len(added))>>)

\* create_party_room: draw a code, seed the members with the host, insert
create_party_room(rs, seed, movie_id, host_id) ==
  LET code == generate_room_code(seed)
      host_member == Member(host_id, "Host", TRUE)
      members == <<host_member>>
      party_room == PartyRoom(code, movie_id, host_id, TRUE, json_dumps(members))
      added == Append(rs, party_room)
  IN IF unique_code_ok(rs, code)
     THEN Result(HTTP_OK, added, <<RoomView(added, Len(added))>>)
     ELSE Result(HTTP_ERROR, rs, <<>>)

\* faulty variant of join_stage: the new member replaces the list
join_stage_overwrite(rs, code, user_id, user_name) ==
  LET i == query_active(rs, code)
  IN IF i = 0 THEN Staged(HTTP_NOT_FOUND, NoWrite)
     ELSE LET members == json_loads(rs[i].members)
          IN IF \E k \in 1..Len(members) : members[k].id = user_id
             THEN Staged(HTTP_BAD_REQUEST, NoWrite)
             ELSE LET new_member == Member(user_id, user_name, FALSE)
                  IN Staged(HTTP_OK, Write(i, <<json_dumps(<<new_member>>)>>, <<>>))

\* faulty variant of join_stage: no check for a user who is already in the room
join_stage_nocheck(rs, code, user_id, user_name) ==
  LET i == query_active(rs, code)
  IN IF i = 0 THEN Staged(HTTP_NOT_FOUND, NoWrite)
     ELSE LET members == json_loads(rs[i].members)
              new_member == Member(user_id, user_name, FALSE)
          IN Staged(HTTP_OK,
                    Write(i, <<json_dumps(Append(members, new_member))>>, <<>>))

\* faulty variant of join_stage: the query does not filter on is_active
join_stage_any(rs, code, user_id, user_name) ==
  LET i == query_code(rs, code)
  IN IF i = 0 THEN Staged(HTTP_NOT_FOUND, NoWrite)
     ELSE LET members == json_loads(rs[i].members)
          IN IF \E k \in 1..Len(members) : members[k].id = user_id
             THEN Staged(HTTP_BAD_REQUEST, NoWrite)
             ELSE LET new_member == Member(user_id, user_name, FALSE)
                  IN Staged(HTTP_OK,
                            Write(i, <<json_dumps(Append(members, new_member))>>, <<>>))

\* join_party_room up to db.commit()
join_stage(rs, code, user_id, user_name) ==
  LET i == query_active(rs, code)
  IN IF i = 0 THEN Staged(HTTP_NOT_FOUND, NoWrite)
     ELSE LET members == json_loads(rs[i].members)
          IN IF \E k \in 1..Len(members) : members[k].id = user_id
             THEN Staged(HTTP_BAD_REQUEST, NoWrite)
             ELSE LET new_member == Member(user_id, user_name, FALSE)
                  IN Staged(HTTP_OK,
                            Write(i, <<json_dumps(Append(members, new_member))>>, <<>>))

\* faulty variant of leave_stage: the filter keeps the leaver instead of the others
leave_stage_inverted(rs, code, user_id) ==
  LET i == query_active(rs, code)
  IN IF i = 0 THEN Staged(HTTP_NOT_FOUND, NoWrite)
     ELSE LET original == json_loads(rs[i].members)
              members == SelectSeq(original, LAMBDA m : m.id = user_id)
          IN IF Len(members) < Len(original) /\ members # <<>>
             THEN IF user_id = rs[i].host_id
                  THEN Staged(HTTP_OK, Write(i, <<>>, <<FALSE>>))
                  ELSE Staged(HTTP_OK, Write(i, <<json_dumps(members)>>, <<>>))
             ELSE Staged(HTTP_NOT_FOUND, NoWrite)

\* faulty variant of leave_stage: the host's leaving also stores the filtered list
leave_stage_hostfilter(rs, code, user_id) ==
  LET i == query_active(rs, code)
  IN IF i = 0 THEN Staged(HTTP_NOT_FOUND, NoWrite)
     ELSE LET original == json_loads(rs[i].members)
              members == filter_out(original, user_id)
          IN IF Len(members) < Len(original)
             THEN IF user_id = rs[i].host_id
                  THEN Staged(HTTP_OK, Write(i, <<json_dumps(members)>>, <<FALSE>>))
                  ELSE Staged(HTTP_OK, Write(i, <<json_dumps(members)>>, <<>>))
             ELSE Staged(HTTP_NOT_FOUND, NoWrite)

\* leave_party_room up to db.commit()
leave_stage(rs, code, user_id) ==
  LET i == query_active(rs, code)
  IN IF i = 0 THEN Staged(HTTP_NOT_FOUND, NoWrite)
     ELSE LET original == json_loads(rs[i].members)
              members == filter_out(original, user_id)
          IN IF Len(members) < Len(original)
             THEN IF user_id = rs[i].host_id
                  THEN Staged(HTTP_OK, Write(i, <<>>, <<FALSE>>))
                  ELSE Staged(HTTP_OK, Write(i, <<json_dumps(members)>>, <<>>))
             ELSE Staged(HTTP_NOT_FOUND, NoWrite)

\* faulty variant of end_stage: the flag is toggled
end_stage_toggle(rs, code) ==
  LET i == query_code(rs, code)
  IN IF i = 0 THEN Staged(HTTP_NOT_FOUND, NoWrite)
     ELSE Staged(HTTP_OK, Write(i, <<>>, <<~rs[i].is_active>>))

\* faulty variant of end_stage: the query filters on is_active as the other handlers do
end_stage_active_only(rs, code) ==
  LET i == query_active(rs, code)
  IN IF i = 0 THEN Staged(HTTP_NOT_FOUND, NoWrite)
     ELSE Staged(HTTP_OK, Write(i, <<>>, <<FALSE>>))

\* end_party_room up to db.commit(); an assignment that does not change the
\* loaded value stages nothing
end_stage(rs, code) ==
  LET i == query_code(rs, code)
  IN IF i = 0 THEN Staged(HTTP_NOT_FOUND, NoWrite)
     ELSE IF rs[i].is_active THEN Staged(HTTP_OK, Write(i, <<>>, <<FALSE>>))
          ELSE Staged(HTTP_OK, Write(i, <<>>, <<>>))

\* db.commit(); db.refresh(party_room); return party_room
committed(rs, st) ==
  IF st.status # HTTP_OK THEN Result(st.status, rs, <<>>)
  ELSE LET after == flush(rs, st.write)
       IN Result(HTTP_OK, after, <<RoomView(after, st.write.id)>>)

join_party_room(rs, code, user_id, user_name) ==
  committed(rs, join_stage(rs, code, user_id, user_name))

\* the /party/leave endpoint returns the room only while it is active
leave_response(r) ==
  IF r.room # <<>> /\ ~r.room[1].is_active
  THEN Result(r.status, r.rooms, <<>>) ELSE r

leave_party_room(rs, code, user_id) ==
  leave_response(committed(rs, leave_stage(rs, code, user_id)))

\* end_party_room returns a message, not the room
end_response(r) == Result(r.status, r.rooms, <<>>)

end_party_room(rs, code) ==
  end_response(committed(rs, end_stage(rs, code)))

\* faulty variant of get_party_room: the query does not filter on is_active
get_party_room_any(rs, code) ==
  LET i == query_code(rs, code)
  IN IF i = 0 THEN Result(HTTP_NOT_FOUND, rs, <<>>)
     ELSE Result(HTTP_OK, rs, <<RoomView(rs, i)>>)

\* get_party_room: the active room with the code, or 404
get_party_room(rs, code) ==
  LET i == query_active(rs, code)
  IN IF i = 0 THEN Result(HTTP_NOT_FOUND, rs, <<>>)
     ELSE Result(HTTP_OK, rs, <<RoomView(rs, i)>>)

\* sync_playback: checks the room is active, logs, echoes the request
sync_playback(rs, code, action) ==
  LET i == query_active(rs, code)
  IN IF i = 0 THEN Result(HTTP_NOT_FOUND, rs, <<>>)
     ELSE Result(HTTP_OK, rs, <<>>)

\* /party/start: get_party_room, then a message
start_party_watching(rs, code) ==
  LET r == get_party_room(rs, code)
  IN Result(r.status, r.rooms, <<>>)

\* ------------------------------------------------------- responses
Response(op, code, user, echo, r) ==
  [op |-> op, code |-> code, user |-> user, echo |-> echo,
   status |-> r.status, room |-> r.room]

NoResponse ==
  [op |-> "none", code |-> <<>>, user |-> "", echo |-> "",
   status |-> HTTP_OK, room |-> <<>>]

\* --------------------------------------------------------- actions
\* a worker that holds no request
Idle == [op |-> "idle", code |-> <<>>, user |-> "", st |-> Staged(HTTP_OK, NoWrite)]

\* what the service has told its callers: a join answered with success puts
\* the user among those told they are in the room, a leave answered with
\* success takes the user out again
announce(j, op, code, user_id, status) ==
  IF status # HTTP_OK THEN j
  ELSE IF op = "join" THEN j \cup {<<code, user_id>>}
  ELSE IF op = "leave" THEN j \ {<<code, user_id>>}
  ELSE j

\* no party request has been served
PartyInit ==
  /\ rooms = <<>>
  /\ resp = NoResponse
  /\ sessions = [w \in Workers |-> Idle]
  /\ joined = {}

\* no recommendations request is under way
RecIdle ==
  /\ user_movies = <<>>
  /\ max_results = 0
  /\ rec_pc = "idle"
  /\ top_genres = <<>>
  /\ genre_idx = 0
  /\ recommendations = <<>>
  /\ calls = <<>>
  /\ failed = {}
  /\ offered = {}
  /\ rec_resp = <<>>

\* the movies table is empty and no /movies request has been served
MediaIdle ==
  /\ db_movies = <<>>
  /\ media_resp = [op |-> "none"]

\* a TMDB service as __init__ leaves it, before any call
CacheIdle ==
  /\ credentials = TRUE
  /\ cache = [k \in CacheKeys |-> <<>>]
  /\ now = 0
  /\ lookup = [op |-> "none"]

Init ==
  /\ PartyInit
  /\ RecIdle
  /\ MediaIdle
  /\ CacheIdle

CreateRoom ==
  \E seed \in Seeds, movie_id \in MovieIds, host_id \in UserIds :
    LET r == create_party_room(rooms, seed, movie_id, host_id)
    IN /\ rooms' = r.rooms
       /\ resp' = Response("create", generate_room_code(seed), host_id, "", r)
       /\ UNCHANGED <<sessions, joined, rec_vars, media_vars, cache_vars>>

JoinRoom ==
  \E code \in ReqCodes, user_id \in UserIds, user_name \in UserNames :
    LET r == join_party_room(rooms, code, user_id, user_name)
    IN /\ rooms' = r.rooms
       /\ resp' = Response("join", code, user_id, "", r)
       /\ joined' = announce(joined, "join", code, user_id, r.status)
       /\ UNCHANGED <<sessions, rec_vars, media_vars, cache_vars>>

LeaveRoom ==
  \E code \in ReqCodes, user_id \in UserIds :
    LET r == leave_party_room(rooms, code, user_id)
    IN /\ rooms' = r.rooms
       /\ resp' = Response("leave", code, user_id, "", r)
       /\ joined' = announce(joined, "leave", code, user_id, r.status)
       /\ UNCHANGED <<sessions, rec_vars, media_vars, cache_vars>>

\* the request carries the room code only: who sends it (caller) is not
\* among the handler's parameters
EndRoom ==
  \E code \in ReqCodes, caller \in UserIds :
    LET r == end_party_room(rooms, code)
    IN /\ rooms' = r.rooms
       /\ resp' = Response("end", code, caller, "", r)
       /\ UNCHANGED <<sessions, joined, rec_vars, media_vars, cache_vars>>

GetRoom ==
  \E code \in ReqCodes :
    LET r == get_party_room(rooms, code)
    IN /\ rooms' = r.rooms
       /\ resp' = Response("get", code, "", "", r)
       /\ UNCHANGED <<sessions, joined, rec_vars, media_vars, cache_vars>>

SyncPlayback ==
  \E code \in ReqCodes, action \in SyncActions :
    LET r == sync_playback(rooms, code, action)
    IN /\ rooms' = r.rooms
       /\ resp' = Response("sync", code, "", action, r)
       /\ UNCHANGED <<sessions, joined, rec_vars, media_vars, cache_vars>>

StartWatching ==
  \E code \in ReqCodes :
    LET r == start_party_watching(rooms, code)
    IN /\ rooms' = r.rooms
       /\ resp' = Response("start", code, "", "", r)
       /\ UNCHANGED <<sessions, joined, rec_vars, media_vars, cache_vars>>

Next ==
  \/ CreateRoom
  \/ JoinRoom
  \/ LeaveRoom
  \/ EndRoom
  \/ GetRoom
  \/ SyncPlayback
  \/ StartWatching

\* every handler runs from its query to its response before the next starts
Spec == Init /\ [][Next]_vars

\* ------------------------------------------- requests that interleave
\* A worker's session reads the row when the handler queries it and writes
\* the assigned columns at db.commit(); nothing orders one worker's commit
\* against another worker's query.  A handler that raises before its commit
\* answers in the step of its query.
Shaped(op, r) ==
  IF op = "leave" THEN leave_response(r)
  ELSE IF op = "end" THEN end_response(r)
  ELSE r

Query(w, op, code, user, st) ==
  /\ sessions[w] = Idle
  /\ IF st.status = HTTP_OK
     THEN /\ sessions' = [sessions EXCEPT ![w] =
                            [op |-> op, code |-> code, user |-> user, st |-> st]]
          /\ UNCHANGED <<rooms, resp>>
     ELSE /\ resp' = Response(op, code, user, "", Shaped(op, committed(rooms, st)))
          /\ UNCHANGED <<rooms, sessions>>
  /\ UNCHANGED <<joined, rec_vars, media_vars, cache_vars>>

JoinQuery ==
  \E w \in Workers, code \in ReqCodes, user_id \in UserIds, user_name \in UserNames :
    Query(w, "join", code, user_id, join_stage(rooms, code, user_id, user_name))

LeaveQuery ==
  \E w \in Workers, code \in ReqCodes, user_id \in UserIds :
    Query(w, "leave", code, user_id, leave_stage(rooms, code, user_id))

EndQuery ==
  \E w \in Workers, code \in ReqCodes, caller \in UserIds :
    Query(w, "end", code, caller, end_stage(rooms, code))

Commit ==
  \E w \in Workers :
    /\ sessions[w] # Idle
    /\ LET r == Shaped(sessions[w].op, committed(rooms, sessions[w].st))
       IN /\ rooms' = r.rooms
          /\ resp' = Response(sessions[w].op, sessions[w].code, sessions[w].user, "", r)
          /\ joined' = announce(joined, sessions[w].op, sessions[w].code,
                                sessions[w].user, r.status)
    /\ sessions' = [sessions EXCEPT ![w] = Idle]
    /\ UNCHANGED <<rec_vars, media_vars, cache_vars>>

NextConc ==
  \/ CreateRoom
  \/ JoinQuery
  \/ LeaveQuery
  \/ EndQuery
  \/ Commit

SpecConc == Init /\ [][NextConc]_vars

\* =================================================== recommendations
\* RecommendationEngine, the TMDBService calls it makes and the
\* /recommendations endpoint.  A string is a sequence of lexemes: words, the
\* comma "," and the blank " ".  A request reaches the TMDB service only
\* through discover_by_genre, discover_tv_by_genre and
\* get_highly_rated_movies; what one of these calls yields (a live answer, a
\* cached one, or a failure) is chosen when the call is made.

\* "Not specified", the genre add_movie_from_tmdb stores when TMDB names none
NOT_SPECIFIED == <<"Not", " ", "specified">>

\* the dictionary TMDB_GENRE_IDS in its source order
TMDB_GENRE_IDS ==
  << <<<<"Action">>, 28>>, <<<<"Adventure">>, 12>>, <<<<"Animation">>, 16>>,
     <<<<"Comedy">>, 35>>, <<<<"Crime">>, 80>>, <<<<"Documentary">>, 99>>,
     <<<<"Drama">>, 18>>, <<<<"Family">>, 10751>>, <<<<"Fantasy">>, 14>>,
     <<<<"History">>, 36>>, <<<<"Horror">>, 27>>, <<<<"Music">>, 10402>>,
     <<<<"Mystery">>, 9648>>, <<<<"Romance">>, 10749>>,
     <<<<"Science", " ", "Fiction">>, 878>>, <<<<"TV", " ", "Movie">>, 10770>>,
     <<<<"Thriller">>, 53>>, <<<<"War">>, 10752>>, <<<<"Western">>, 37>> >>

\* TMDB_GENRE_IDS.get(genre): 0 stands for None
genre_id_of(genre) ==
  LET hits == {k \in 1..Len(TMDB_GENRE_IDS) : TMDB_GENRE_IDS[k][1] = genre}
  IN IF hits = {} THEN 0 ELSE TMDB_GENRE_IDS[CHOOSE k \in hits : TRUE][2]

\* a row of the movies table, as far as the engine reads it: tmdb_id is <<>>
\* for NULL and <<n>> for the integer n
Movie(tmdb_id, genre) == [tmdb_id |-> tmdb_id, genre |-> genre]

\* the rows a collection is drawn from
MovieRows ==
  { Movie(<<1>>, <<"Action">>),
    Movie(<<>>, <<"Drama", ",", " ", "Action">>),
    Movie(<<2>>, NOT_SPECIFIED),
    Movie(<<>>, <<>>),
    Movie(<<>>, <<"Comedy", " ", ",", "Noir", ",", "Horror", ",", " ", "Drama">>),
    Movie(<<3>>, <<" ", "Comedy">>) }

\* every list of at most n distinct rows
Collections(n) ==
  UNION {{c \in [1..k -> MovieRows] : \A i, j \in 1..k : i # j => c[i] # c[j]} :
           k \in 0..n}

\* the result lists a TMDB call can yield, as the ids of the results in order
Pages ==
  {<<>>, <<1>>, <<1, 2>>, <<2, 1>>, <<2, 2>>, <<3, 1>>, <<2, 3>>}

\* the results a TMDB call can have built when it fails
FailedPages == {<<>>, <<2>>}

\* what a TMDB call can come to: a list of results, or a failure (no
\* credentials, a status other than 200, an exception) with whatever results
\* had been built when it failed
Outcomes == [ok : {TRUE}, ids : Pages] \cup [ok : {FALSE}, ids : FailedPages]

\* str.split(','): the pieces between the commas
RECURSIVE split(_)
split(s) ==
  LET commas == {k \in 1..Len(s) : s[k] = ","}
  IN IF commas = {} THEN <<s>>
     ELSE LET k == CHOOSE c \in commas : \A d \in commas : c <= d
          IN <<SubSeq(s, 1, k - 1)>> \o split(SubSeq(s, k + 1, Len(s)))

\* str.strip(): no blanks at either end
RECURSIVE strip(_)
strip(s) ==
  IF s # <<>> /\ Head(s) = " " THEN strip(Tail(s))
  ELSE IF s # <<>> /\ s[Len(s)] = " " THEN strip(SubSeq(s, 1, Len(s) - 1))
  ELSE s

\* [g.strip() for g in movie.genre.split(',')]
genres_of(genre) ==
  LET pieces == split(genre)
  IN [k \in 1..Len(pieces) |-> strip(pieces[k])]

\* genre_stats[genre] = genre_stats.get(genre, 0) + 1 on a dictionary kept as
\* its <<key, value>> pairs in insertion order
bump(stats, genre) ==
  IF \E k \in 1..Len(stats) : stats[k][1] = genre
  THEN [k \in 1..Len(stats) |->
          IF stats[k][1] = genre THEN <<genre, stats[k][2] + 1>> ELSE stats[k]]
  ELSE Append(stats, <<genre, 1>>)

RECURSIVE bump_all(_, _)
bump_all(stats, genres) ==
  IF genres = <<>> THEN stats
  ELSE bump_all(bump(stats, Head(genres)), Tail(genres))

\* if movie.genre and movie.genre != "Not specified"
has_genre(movie) == movie.genre # <<>> /\ movie.genre # NOT_SPECIFIED

\* the loop that fills genre_stats
RECURSIVE genre_stats(_)
genre_stats(movies) ==
  IF movies = <<>> THEN <<>>
  ELSE LET m == movies[Len(movies)]
           before == genre_stats(SubSeq(movies, 1, Len(movies) - 1))
       IN IF has_genre(m) THEN bump_all(before, genres_of(m.genre)) ELSE before

\* faulty variant of sorted_by_count: among equal counts the later entry first
RECURSIVE sorted_by_count_unstable(_)
sorted_by_count_unstable(stats) ==
  IF stats = <<>> THEN <<>>
  ELSE LET k == CHOOSE i \in 1..Len(stats) :
                  \A j \in 1..Len(stats) :
                    \/ stats[i][2] > stats[j][2]
                    \/ stats[i][2] = stats[j][2] /\ i >= j
       IN <<stats[k]>> \o
          sorted_by_count_unstable(SubSeq(stats, 1, k - 1) \o
                                   SubSeq(stats, k + 1, Len(stats)))

\* sorted(genre_stats.items(), key=lambda x: x[1], reverse=True): a stable
\* sort, entries of equal count stay in their order
RECURSIVE sorted_by_count(_)
sorted_by_count(stats) ==
  IF stats = <<>> THEN <<>>
  ELSE LET k == CHOOSE i \in 1..Len(stats) :
                  \A j \in 1..Len(stats) :
                    \/ stats[i][2] > stats[j][2]
                    \/ stats[i][2] = stats[j][2] /\ i <= j
       IN <<stats[k]>> \o
          sorted_by_count(SubSeq(stats, 1, k - 1) \o
                          SubSeq(stats, k + 1, Len(stats)))

\* the slice [:n] for n >= 0
first(s, n) == SubSeq(s, 1, IF n < Len(s) THEN n ELSE Len(s))

\* the entries of a result of the TMDB service that the engine reads or sets
TmdbResult(id, media_type) ==
  [id |-> id, media_type |-> media_type, recommendation_reason |-> <<>>]

\* faulty variant of discover_by_genre: a failure returns the results built so far
discover_by_genre_partial(outcome) ==
  [k \in 1..Len(outcome.ids) |-> TmdbResult(outcome.ids[k], "movie")]

\* TMDBService.discover_by_genre: the results as movies, [] on a failure
discover_by_genre(outcome) ==
  IF outcome.ok
  THEN [k \in 1..Len(outcome.ids) |-> TmdbResult(outcome.ids[k], "movie")]
  ELSE <<>>

\* TMDBService.discover_tv_by_genre: the results as shows, [] on a failure
discover_tv_by_genre(outcome) ==
  IF outcome.ok
  THEN [k \in 1..Len(outcome.ids) |-> TmdbResult(outcome.ids[k], "tv")]
  ELSE <<>>

\* TMDBService.get_highly_rated_movies(limit): results[:limit], [] on a failure
get_highly_rated_movies(outcome, limit) ==
  IF outcome.ok
  THEN first([k \in 1..Len(outcome.ids) |-> TmdbResult(outcome.ids[k], "movie")],
             limit)
  ELSE <<>>

\* any(m.tmdb_id == result['id'] for m in user_movies)
in_collection(movies, id) == \E k \in 1..Len(movies) : movies[k].tmdb_id = <<id>>

\* any(r['id'] == result['id'] for r in recommendations)
already_staged(recs, id) == \E k \in 1..Len(recs) : recs[k].id = id

\* faulty variant of stage_results: results in the collection are not skipped
RECURSIVE stage_results_owned(_, _, _, _, _)
stage_results_owned(recs, results, movies, genre, max) ==
  IF results = <<>> THEN recs
  ELSE LET result == Head(results)
       IN IF already_staged(recs, result.id)
          THEN stage_results_owned(recs, Tail(results), movies, genre, max)
          ELSE LET staged == Append(recs,
                               [result EXCEPT !.recommendation_reason =
                                  <<"Popular", genre, result.media_type>>])
               IN IF Len(staged) >= max THEN staged
                  ELSE stage_results_owned(staged, Tail(results), movies, genre, max)

\* faulty variant of stage_results: results already staged are not skipped
RECURSIVE stage_results_dup(_, _, _, _, _)
stage_results_dup(recs, results, movies, genre, max) ==
  IF results = <<>> THEN recs
  ELSE LET result == Head(results)
       IN IF in_collection(movies, result.id)
          THEN stage_results_dup(recs, Tail(results), movies, genre, max)
          ELSE LET staged == Append(recs,
                               [result EXCEPT !.recommendation_reason =
                                  <<"Popular", genre, result.media_type>>])
               IN IF Len(staged) >= max THEN staged
                  ELSE stage_results_dup(staged, Tail(results), movies, genre, max)

\* the loop over all_results of one genre: skip what the collection holds and
\* what is staged, append the rest with its reason, break once the staged
\* list has max entries (the test follows the append)
RECURSIVE stage_results(_, _, _, _, _)
stage_results(recs, results, movies, genre, max) ==
  IF results = <<>> THEN recs
  ELSE LET result == Head(results)
       IN IF in_collection(movies, result.id) \/ already_staged(recs, result.id)
          THEN stage_results(recs, Tail(results), movies, genre, max)
          ELSE LET staged == Append(recs,
                               [result EXCEPT !.recommendation_reason =
                                  <<"Popular", genre, result.media_type>>])
               IN IF Len(staged) >= max THEN staged
                  ELSE stage_results(staged, Tail(results), movies, genre, max)

\* the loop of _get_additional_recommendations over highly_rated_movies
RECURSIVE pad_results(_, _, _, _)
pad_results(recs, results, movies, max) ==
  IF results = <<>> THEN recs
  ELSE LET result == Head(results)
       IN IF ~in_collection(movies, result.id) /\ ~already_staged(recs, result.id)
          THEN LET staged == Append(recs,
                               [result EXCEPT !.recommendation_reason =
                                  <<"Critically acclaimed">>])
               IN IF Len(staged) >= max THEN staged
                  ELSE pad_results(staged, Tail(results), movies, max)
          ELSE pad_results(recs, Tail(results), movies, max)

\* _get_additional_recommendations once get_highly_rated_movies has answered
get_additional_recommendations(movies, current_recommendations, max, outcome) ==
  LET remaining_slots == max - Len(current_recommendations)
  IN IF remaining_slots <= 0 THEN current_recommendations
     ELSE pad_results(current_recommendations,
                      get_highly_rated_movies(outcome, remaining_slots),
                      movies, max)

\* _get_recommendation_reasons: a phrase for each of the two leading genres
get_recommendation_reasons(movies) ==
  LET top == first(sorted_by_count(genre_stats(movies)), 2)
      reasons == {IF top[k][2] = 1
                  THEN <<"Your interest in", top[k][1]>>
                  ELSE <<"Your", top[k][2], top[k][1], "movies">> :
                  k \in 1..Len(top)}
  IN IF reasons = {} THEN {<<"Your movie collection preferences">>} ELSE reasons

\* the endpoint's answer when the collection is empty
ADD_MOVIES ==
  "Add some movies to your collection to get personalized recommendations"

RecommendationResponse(recs, based_on, message) ==
  [status |-> HTTP_OK, recommendations |-> recs, based_on |-> based_on,
   message |-> message]

\* what the request answers once _get_genre_based_recommendations has
\* returned genre_recommendations: the slice [:max_results], each entry with
\* already_added as the endpoint looks it up, and the message with the
\* length of the unsliced list
respond(movies, genre_recommendations, max) ==
  LET returned == first(genre_recommendations, max)
      enhanced == [k \in 1..Len(returned) |->
                     [id |-> returned[k].id,
                      media_type |-> returned[k].media_type,
                      recommendation_reason |-> returned[k].recommendation_reason,
                      already_added |-> in_collection(movies, returned[k].id)]]
  IN RecommendationResponse(enhanced, get_recommendation_reasons(movies),
                            <<"Found", Len(genre_recommendations)>>)

\* a call to the TMDB service: the method and its argument
Call(method, arg) == <<method, arg>>

\* a recommendations request has been received
InitRec ==
  /\ PartyInit
  /\ MediaIdle
  /\ CacheIdle
  /\ user_movies \in Collections(MaxItems)
  /\ max_results \in 0..MaxResults
  /\ rec_pc = "request"
  /\ top_genres = <<>>
  /\ genre_idx = 0
  /\ recommendations = <<>>
  /\ calls = <<>>
  /\ failed = {}
  /\ offered = {}
  /\ rec_resp = <<>>

\* the request is answered with genre_recommendations
Return(genre_recommendations) ==
  /\ rec_pc' = "done"
  /\ rec_resp' = <<respond(user_movies, genre_recommendations, max_results)>>

\* faulty variant of StartRequest: an empty collection is padded from the
\* highly rated instead of being answered at once
StartRequest_pad ==
  /\ rec_pc = "request"
  /\ LET stats == genre_stats(user_movies)
     IN IF stats = <<>>
        THEN /\ rec_pc' = "fallback"
             /\ UNCHANGED <<top_genres, genre_idx, rec_resp>>
        ELSE /\ top_genres' = first(sorted_by_count(stats), 3)
             /\ genre_idx' = 1
             /\ rec_pc' = "genres"
             /\ UNCHANGED rec_resp
  /\ UNCHANGED <<user_movies, max_results, recommendations, calls, failed, offered>>
  /\ UNCHANGED <<party_vars, media_vars, cache_vars>>

\* the endpoint reads the collection; the engine builds the histogram and
\* picks top_genres
StartRequest ==
  /\ rec_pc = "request"
  /\ IF user_movies = <<>>
     THEN /\ rec_pc' = "done"
          /\ rec_resp' = <<RecommendationResponse(<<>>, {}, ADD_MOVIES)>>
          /\ UNCHANGED <<top_genres, genre_idx>>
     ELSE LET stats == genre_stats(user_movies)
          IN IF stats = <<>>
             THEN /\ Return(<<>>)
                  /\ UNCHANGED <<top_genres, genre_idx>>
             ELSE /\ top_genres' = first(sorted_by_count(stats), 3)
                  /\ genre_idx' = 1
                  /\ rec_pc' = "genres"
                  /\ UNCHANGED rec_resp
  /\ UNCHANGED <<user_movies, max_results, recommendations, calls, failed, offered>>
  /\ UNCHANGED <<party_vars, media_vars, cache_vars>>

\* where the request goes after the pass for top_genres[genre_idx] that
\* ended at the bottom of the loop body with staged
AfterPass(staged) ==
  IF Len(staged) >= max_results
  THEN Return(staged) /\ UNCHANGED genre_idx
  ELSE IF genre_idx < Len(top_genres)
  THEN rec_pc' = "genres" /\ genre_idx' = genre_idx + 1 /\ UNCHANGED rec_resp
  ELSE rec_pc' = "fallback" /\ UNCHANGED <<genre_idx, rec_resp>>

\* where the request goes after a genre that TMDB_GENRE_IDS does not know:
\* continue skips the test at the bottom of the loop body
AfterContinue ==
  IF genre_idx < Len(top_genres)
  THEN rec_pc' = "genres" /\ genre_idx' = genre_idx + 1 /\ UNCHANGED rec_resp
  ELSE IF Len(recommendations) < max_results
  THEN rec_pc' = "fallback" /\ UNCHANGED <<genre_idx, rec_resp>>
  ELSE Return(recommendations) /\ UNCHANGED genre_idx

\* one turn of the loop over top_genres
GenrePass ==
  /\ rec_pc = "genres"
  /\ LET genre == top_genres[genre_idx][1]
         genre_id == genre_id_of(genre)
     IN IF genre_id = 0
        THEN /\ AfterContinue
             /\ UNCHANGED <<recommendations, calls, failed, offered>>
        ELSE \E movie_outcome \in Outcomes, tv_outcome \in Outcomes :
               LET movies == discover_by_genre(movie_outcome)
                   tv_shows == discover_tv_by_genre(tv_outcome)
                   all_results == movies \o tv_shows
                   staged == stage_results(recommendations, all_results,
                                           user_movies, genre, max_results)
               IN /\ recommendations' = staged
                  /\ calls' = calls \o <<Call("discover_by_genre", genre_id),
                                          Call("discover_tv_by_genre", genre_id)>>
                  /\ failed' = {m \in {"discover_by_genre"} : ~movie_outcome.ok}
                                \cup {m \in {"discover_tv_by_genre"} : ~tv_outcome.ok}
                  /\ offered' = {all_results[k].id : k \in 1..Len(all_results)}
                  /\ AfterPass(staged)
  /\ UNCHANGED <<user_movies, max_results, top_genres>>
  /\ UNCHANGED <<party_vars, media_vars, cache_vars>>

\* the genre passes left fewer than max_results: pad from the highly rated
Fallback ==
  /\ rec_pc = "fallback"
  /\ \E outcome \in Outcomes :
       LET remaining_slots == max_results - Len(recommendations)
           highly_rated_movies == get_highly_rated_movies(outcome, remaining_slots)
           padded == get_additional_recommendations(user_movies, recommendations,
                                                    max_results, outcome)
       IN /\ recommendations' = padded
          /\ calls' = Append(calls, Call("get_highly_rated_movies", remaining_slots))
          /\ failed' = {m \in {"get_highly_rated_movies"} : ~outcome.ok}
          /\ offered' = {highly_rated_movies[k].id : k \in 1..Len(highly_rated_movies)}
          /\ Return(padded)
  /\ UNCHANGED <<user_movies, max_results, top_genres, genre_idx>>
  /\ UNCHANGED <<party_vars, media_vars, cache_vars>>

NextRec ==
  \/ StartRequest
  \/ GenrePass
  \/ Fallback

\* one recommendations request, from its arrival to its answer
SpecRec == InitRec /\ [][NextRec]_vars

\* ------------------------------------------------ the media collection
\* Rows of the movies table carry the columns the /movies handlers decide on:
\* id, tmdb_id, status, rating, review, is_tv_show, episodes_watched,
\* total_episodes, minutes_watched.  A nullable value is <<>> for None and
\* <<v>> for v.  Ratings are floats in the program; the model draws whole
\* numbers, on which the handlers' comparisons are the same.  title, director,
\* genre, platform, total_minutes, poster_path, release_date, overview and
\* created_at are stored but never read by these handlers.

NONE == <<>>

\* Python's truth value of an Optional[int]
truthy(v) == v # NONE /\ v[1] # 0

\* MovieBase.set_default_int and MovieUpdate.set_default_int
set_default_int(v) == IF v = NONE THEN <<0>> ELSE v

\* MovieCreate as the validator leaves it
MovieCreate(movie) ==
  [movie EXCEPT !.episodes_watched = set_default_int(@),
                !.minutes_watched = set_default_int(@)]

\* MovieUpdate as the validator leaves it: only the fields the body carries
MovieUpdate(body) ==
  [f \in DOMAIN body |->
     IF f \in {"episodes_watched", "minutes_watched"}
     THEN set_default_int(body[f]) ELSE body[f]]

\* db.query(Movie).filter(Movie.id == movie_id).first(): the row's position, 0 for None
by_id(ms, movie_id) ==
  IF \E k \in 1..Len(ms) : ms[k].id = movie_id
  THEN CHOOSE k \in 1..Len(ms) : ms[k].id = movie_id
  ELSE 0

\* db.query(Movie).filter(Movie.tmdb_id == tmdb_id).first() is not None
by_tmdb_id(ms, tmdb_id) == \E k \in 1..Len(ms) : ms[k].tmdb_id = <<tmdb_id>>

\* the INTEGER PRIMARY KEY the database gives the next row
next_id(ms) ==
  IF ms = <<>> THEN 1
  ELSE 1 + CHOOSE m \in {ms[k].id : k \in 1..Len(ms)} :
             \A k \in 1..Len(ms) : ms[k].id <= m

\* episodes_watched and minutes_watched are NOT NULL columns
storable(row) == row.episodes_watched # NONE /\ row.minutes_watched # NONE

\* what a /movies handler answers and the table it leaves
MediaResult(status, ms) == [status |-> status, movies |-> ms]

\* db.add(db_movie); db.commit(), and the handler's except Exception branch
insert(ms, row) ==
  IF storable(row) THEN MediaResult(HTTP_OK, Append(ms, row))
  ELSE MediaResult(HTTP_ERROR, ms)

\* TMDBService.get_movie_details as the handlers read it: None, or the details
get_movie_details(answer, is_tv) ==
  IF answer = NONE THEN NONE
  ELSE <<[total_episodes |-> IF is_tv THEN answer[1].number_of_episodes ELSE NONE]>>

add_movie_from_tmdb(ms, tmdb_movie, answer) ==
  LET details == get_movie_details(answer, tmdb_movie.is_tv_show)
  IN IF by_tmdb_id(ms, tmdb_movie.tmdb_id)
     THEN MediaResult(HTTP_BAD_REQUEST, ms)
     ELSE IF tmdb_movie.platform = <<>> \/ strip(tmdb_movie.platform) = <<>>
     THEN MediaResult(HTTP_BAD_REQUEST, ms)
     ELSE IF details = NONE
     THEN MediaResult(HTTP_NOT_FOUND, ms)
     ELSE insert(ms, [id |-> next_id(ms),
                      tmdb_id |-> <<tmdb_movie.tmdb_id>>,
                      status |-> <<tmdb_movie.status>>,
                      rating |-> NONE,
                      review |-> NONE,
                      is_tv_show |-> tmdb_movie.is_tv_show,
                      episodes_watched |-> <<0>>,
                      total_episodes |-> details[1].total_episodes,
                      minutes_watched |-> <<0>>])

\* the details TMDB may give change title, director, genre, poster_path,
\* overview, release_date and total_minutes only: the row is the same with
\* and without them
create_movie(ms, movie) ==
  LET m == MovieCreate(movie)
  IN IF m.platform = <<>> \/ strip(m.platform) = <<>>
     THEN MediaResult(HTTP_BAD_REQUEST, ms)
     ELSE insert(ms, [id |-> next_id(ms),
                      tmdb_id |-> m.tmdb_id,
                      status |-> <<m.status>>,
                      rating |-> NONE,
                      review |-> NONE,
                      is_tv_show |-> m.is_tv_show,
                      episodes_watched |-> m.episodes_watched,
                      total_episodes |-> m.total_episodes,
                      minutes_watched |-> m.minutes_watched])

\* update_data with field set to value
put(update_data, field, value) ==
  [f \in DOMAIN update_data \cup {field} |->
     IF f = field THEN value ELSE update_data[f]]

\* the status update_movie derives from the episode count
derived_status(new_episodes, total_episodes) ==
  IF new_episodes = 0 THEN "wishlist"
  ELSE IF new_episodes >= total_episodes THEN "completed"
  ELSE "watching"

\* update_movie, "Handle episode-based time calculation for TV shows"
episode_based(db_movie, update_data) ==
  IF db_movie.is_tv_show /\ "episodes_watched" \in DOMAIN update_data
  THEN LET given == update_data["episodes_watched"]
           new_episodes == IF given = NONE THEN 0 ELSE given[1]
           timed == put(update_data, "minutes_watched",
                        <<new_episodes * EPISODE_DURATION_MINUTES>>)
       IN IF truthy(db_movie.total_episodes)
          THEN put(timed, "status",
                   <<derived_status(new_episodes, db_movie.total_episodes[1])>>)
          ELSE timed
  ELSE update_data

\* update_movie, "Ensure integer fields are never None"
never_none(update_data) ==
  [f \in DOMAIN update_data |->
     IF f \in {"episodes_watched", "minutes_watched"} /\ update_data[f] = NONE
     THEN <<0>> ELSE update_data[f]]

\* for field, value in update_data.items(): setattr(db_movie, field, value)
setattrs(db_movie, update_data) ==
  [c \in DOMAIN db_movie |->
     IF c \in DOMAIN update_data THEN update_data[c] ELSE db_movie[c]]

\* faulty variant of update_movie: the episode count of the request is stored as it is
update_movie_plain(ms, movie_id, body) ==
  LET k == by_id(ms, movie_id)
  IN IF k = 0
     THEN MediaResult(HTTP_ERROR, ms)
     ELSE LET row == setattrs(ms[k], never_none(MovieUpdate(body)))
          IN IF storable(row)
             THEN MediaResult(HTTP_OK, [ms EXCEPT ![k] = row])
             ELSE MediaResult(HTTP_ERROR, ms)

\* the HTTPException(404) of a missing row is raised inside the try block,
\* whose only handler is except Exception: it is answered as a 500
update_movie(ms, movie_id, body) ==
  LET k == by_id(ms, movie_id)
  IN IF k = 0
     THEN MediaResult(HTTP_ERROR, ms)
     ELSE LET update_data == never_none(episode_based(ms[k], MovieUpdate(body)))
              row == setattrs(ms[k], update_data)
          IN IF storable(row)
             THEN MediaResult(HTTP_OK, [ms EXCEPT ![k] = row])
             ELSE MediaResult(HTTP_ERROR, ms)

\* faulty variant of update_rating_review: the rating is stored before it is checked
update_rating_review_late(ms, movie_id, update) ==
  LET k == by_id(ms, movie_id)
  IN IF k = 0
     THEN MediaResult(HTTP_NOT_FOUND, ms)
     ELSE LET rated == IF update.rating # NONE
                       THEN [ms[k] EXCEPT !.rating = update.rating] ELSE ms[k]
              reviewed == IF update.review # NONE
                          THEN [rated EXCEPT !.review = update.review] ELSE rated
          IN IF update.rating # NONE /\ (update.rating[1] < 0 \/ update.rating[1] > 10)
             THEN MediaResult(HTTP_BAD_REQUEST, [ms EXCEPT ![k] = rated])
             ELSE MediaResult(HTTP_OK, [ms EXCEPT ![k] = reviewed])

update_rating_review(ms, movie_id, update) ==
  LET k == by_id(ms, movie_id)
  IN IF k = 0
     THEN MediaResult(HTTP_NOT_FOUND, ms)
     ELSE IF update.rating # NONE /\ (update.rating[1] < 0 \/ update.rating[1] > 10)
     THEN MediaResult(HTTP_BAD_REQUEST, ms)
     ELSE LET rated == IF update.rating # NONE
                       THEN [ms[k] EXCEPT !.rating = update.rating] ELSE ms[k]
              reviewed == IF update.review # NONE
                          THEN [rated EXCEPT !.review = update.review] ELSE rated
          IN MediaResult(HTTP_OK, [ms EXCEPT ![k] = reviewed])

\* the table without its k-th row
without(ms, k) == SubSeq(ms, 1, k - 1) \o SubSeq(ms, k + 1, Len(ms))

\* as in update_movie, the 404 of a missing row is answered as a 500
delete_movie(ms, movie_id) ==
  LET k == by_id(ms, movie_id)
  IN IF k = 0
     THEN MediaResult(HTTP_ERROR, ms)
     ELSE MediaResult(HTTP_OK, without(ms, k))

\* ---------------------------------------------- the /movies requests
\* the platforms a request names: none, blank, a service
Platforms == {<<>>, <<" ">>, <<"Netflix">>}

\* the one catalog id the requests name
TmdbIds == {603}

\* the ids a request addresses: those of the rows the table can hold and one more
RequestIds == 1..(MaxMovies + 1)

\* what TMDB answers to get_movie_details about a show: nothing, or details
\* with the number_of_episodes it knows
Answers == {NONE, <<[number_of_episodes |-> NONE]>>, <<[number_of_episodes |-> <<2>>]>>}

\* what TMDB answers about a film: nothing, or details
FilmAnswers == {NONE, <<[number_of_episodes |-> NONE]>>}

\* the bodies of POST /movies/ of the ratings scenario: films, with or without a tmdb_id
FilmCreates ==
  [platform : Platforms, tmdb_id : {NONE} \cup {<<t>> : t \in TmdbIds},
   status : {"wishlist"}, is_tv_show : {FALSE}, episodes_watched : {<<0>>},
   total_episodes : {NONE}, minutes_watched : {<<0>>}]

\* the bodies of POST /movies/tmdb/add of the ratings scenario
FilmAdds ==
  [tmdb_id : TmdbIds, platform : Platforms, status : {"wishlist"},
   is_tv_show : {FALSE}]

\* the bodies of PUT /movies/{id} of the ratings scenario
RatingUpdates ==
  {[rating |-> <<11>>], [rating |-> NONE, review |-> <<"good">>]}

\* the bodies of PUT /movies/{id}/rating-review: the ratings are the two
\* ends of [0, 10] and the whole numbers next to them outside
RatingReviewUpdates ==
  {[rating |-> <<r>>, review |-> NONE] : r \in {-1, 0}}
  \cup {[rating |-> r, review |-> <<"good">>] : r \in {NONE, <<10>>, <<11>>}}

\* the bodies of POST /movies/ of the progress scenario: a film and a show
\* that count their episodes, a show of no episodes, counters left null
TrackedCreates ==
  [platform : {<<"Netflix">>}, tmdb_id : {NONE}, status : {"wishlist"},
   is_tv_show : {FALSE}, episodes_watched : {NONE},
   total_episodes : {<<2>>}, minutes_watched : {NONE}]
  \cup
  [platform : {<<"Netflix">>}, tmdb_id : {NONE}, status : {"wishlist"},
   is_tv_show : {TRUE}, episodes_watched : {NONE},
   total_episodes : {<<0>>, <<2>>}, minutes_watched : {NONE}]

\* the bodies of POST /movies/tmdb/add of the progress scenario
ShowAdds ==
  [tmdb_id : TmdbIds, platform : {<<"Netflix">>}, status : {"wishlist"},
   is_tv_show : {TRUE}]

\* the bodies of PUT /movies/{id} of the progress scenario: no field at all,
\* an episode count (null, negative, inside and at total_episodes), and an
\* episode count sent with a status and a minute count of the client's own
ProgressUpdates ==
  {<<>>}
  \cup {[episodes_watched |-> n] : n \in {NONE, <<-1>>, <<1>>}}
  \cup {[episodes_watched |-> <<2>>, status |-> <<"wishlist">>,
         minutes_watched |-> <<7>>]}

MediaResponse(op, movie_id, body, answer, r) ==
  [op |-> op, movie_id |-> movie_id, body |-> body, answer |-> answer,
   status |-> r.status]

Serve(op, movie_id, body, answer, r) ==
  /\ db_movies' = r.movies
  /\ media_resp' = MediaResponse(op, movie_id, body, answer, r)
  /\ UNCHANGED <<party_vars, rec_vars, cache_vars>>

\* the ids of the model's table stay within 1..MaxMovies
Room == next_id(db_movies) <= MaxMovies

CreateMovieOf(bodies) ==
  \E movie \in bodies :
    LET r == create_movie(db_movies, movie)
    IN /\ r.status = HTTP_OK => Room
       /\ Serve("create_movie", 0, movie, NONE, r)

AddMovieFromTmdbOf(bodies, answers) ==
  \E tmdb_movie \in bodies, answer \in answers :
    LET r == add_movie_from_tmdb(db_movies, tmdb_movie, answer)
    IN /\ r.status = HTTP_OK => Room
       /\ Serve("add_movie_from_tmdb", 0, tmdb_movie, answer, r)

UpdateMovieOf(bodies) ==
  \E movie_id \in RequestIds, body \in bodies :
    Serve("update_movie", movie_id, body, NONE,
          update_movie(db_movies, movie_id, body))

UpdateRatingReview ==
  \E movie_id \in RequestIds, update \in RatingReviewUpdates :
    Serve("update_rating_review", movie_id, update, NONE,
          update_rating_review(db_movies, movie_id, update))

DeleteMovie ==
  \E movie_id \in RequestIds :
    Serve("delete_movie", movie_id, NONE, NONE, delete_movie(db_movies, movie_id))

\* the ratings scenario
CreateMovie == CreateMovieOf(FilmCreates)

AddMovieFromTmdb == AddMovieFromTmdbOf(FilmAdds, FilmAnswers)

UpdateMovie == UpdateMovieOf(RatingUpdates)

NextMedia ==
  \/ CreateMovie
  \/ AddMovieFromTmdb
  \/ UpdateMovie
  \/ UpdateRatingReview
  \/ DeleteMovie

SpecMedia == Init /\ [][NextMedia]_vars

\* the progress scenario
CreateTracked == CreateMovieOf(TrackedCreates)

AddShowFromTmdb == AddMovieFromTmdbOf(ShowAdds, Answers)

UpdateProgress == UpdateMovieOf(ProgressUpdates)

NextProgress ==
  \/ CreateTracked
  \/ AddShowFromTmdb
  \/ UpdateProgress
  \/ DeleteMovie

SpecProgress == Init /\ [][NextProgress]_vars

\* ------------------------------------------------ the TMDB cache
\* TMDBService._cache, read and written by every lookup of the service in
\* the same way; the model follows discover_by_genre.  Time is in minutes.
\* A result list is modelled by the ids of its items.

\* self._cache_ttl = timedelta(hours=1), in minutes
cache_ttl == 60

\* what the clock advances by between two calls
Elapse == cache_ttl \div 2

\* faulty variant of is_cache_valid: an entry as old as the time-to-live is still valid
is_cache_valid_inclusive(c, t, cache_key) ==
  /\ c[cache_key] # NONE
  /\ t - c[cache_key][1].cache_time <= cache_ttl

is_cache_valid(c, t, cache_key) ==
  /\ c[cache_key] # NONE
  /\ t - c[cache_key][1].cache_time < cache_ttl

\* the data of a valid entry, None otherwise
get_from_cache(c, t, cache_key) ==
  IF is_cache_valid(c, t, cache_key) THEN <<c[cache_key][1].data>> ELSE NONE

set_to_cache(c, t, cache_key, data) ==
  [c EXCEPT ![cache_key] = <<[cache_time |-> t, data |-> data]>>]

\* what TMDB answers to requests.get: 200 with a page of results, or a failure
Responses ==
  {[status_code |-> 200, results |-> r] : r \in {<<>>, <<101>>, <<102>>}}
  \cup {[status_code |-> 503, results |-> <<>>]}

\* what a lookup returns, the cache it leaves and whether it called TMDB
Lookup(returned, c, called) == [returned |-> returned, cache |-> c, called |-> called]

\* TMDBService.discover_by_genre with its cache; an exception of requests.get
\* is answered like a status other than 200
cached_discover_by_genre(c, t, creds, cache_key, response) ==
  LET cached_data == get_from_cache(c, t, cache_key)
  IN IF cached_data # NONE
     THEN Lookup(cached_data[1], c, FALSE)
     ELSE IF ~creds
     THEN Lookup(<<>>, c, FALSE)
     ELSE IF response.status_code # 200
     THEN Lookup(<<>>, c, TRUE)
     ELSE Lookup(response.results,
                 set_to_cache(c, t, cache_key, response.results), TRUE)

\* a service built with or without credentials, before any call
InitCache ==
  /\ PartyInit
  /\ RecIdle
  /\ MediaIdle
  /\ credentials \in BOOLEAN
  /\ cache = [k \in CacheKeys |-> NONE]
  /\ now = 0
  /\ lookup = [op |-> "none"]

\* the record of a lookup: the entry it found under its key, what it
\* returned, whether it called TMDB and, if so, what TMDB answered
DiscoverByGenre ==
  \E cache_key \in CacheKeys, response \in Responses :
    LET r == cached_discover_by_genre(cache, now, credentials, cache_key, response)
    IN /\ cache' = r.cache
       /\ lookup' = [op |-> "discover_by_genre", key |-> cache_key,
                     found |-> cache[cache_key], returned |-> r.returned,
                     called |-> r.called,
                     response |-> IF r.called THEN <<response>> ELSE NONE]
       /\ UNCHANGED <<credentials, now>>
       /\ UNCHANGED <<party_vars, rec_vars, media_vars>>

ClearCache ==
  /\ cache' = [k \in CacheKeys |-> NONE]
  /\ lookup' = [op |-> "clear_cache"]
  /\ UNCHANGED <<credentials, now>>
  /\ UNCHANGED <<party_vars, rec_vars, media_vars>>

\* time passes
Tick ==
  /\ now + Elapse <= MaxTicks * Elapse
  /\ now' = now + Elapse
  /\ UNCHANGED <<credentials, cache, lookup>>
  /\ UNCHANGED <<party_vars, rec_vars, media_vars>>

NextCache ==
  \/ DiscoverByGenre
  \/ ClearCache
  \/ Tick

SpecCache == InitCache /\ [][NextCache]_vars

\* ------------------------------------------- vocabulary of the claims
\* the rows of rs that carry code c, and those of them that are active
RowsWithCode(rs, c) == {i \in 1..Len(rs) : rs[i].code = c}
ActiveRows(rs, c) == {i \in RowsWithCode(rs, c) : rs[i].is_active}

\* the membership list of row i of rs
MembersOf(rs, i) == json_loads(rs[i].members)

MemberIds(members) == {members[k].id : k \in 1..Len(members)}
CountOf(members, id) == Cardinality({k \in 1..Len(members) : members[k].id = id})
Without(members, id) == SelectSeq(members, LAMBDA m : m.id # id)

\* row i of rs2 is row i of rs1 but for its active flag
SameButActive(rs1, rs2, i) ==
  /\ rs2[i].code = rs1[i].code
  /\ rs2[i].movie_id = rs1[i].movie_id
  /\ rs2[i].host_id = rs1[i].host_id
  /\ rs2[i].members = rs1[i].members

AZ09 ==
  {"A", "B", "C", "D", "E", "F", "G", "H", "I", "J", "K", "L", "M",
   "N", "O", "P", "Q", "R", "S", "T", "U", "V", "W", "X", "Y", "Z",
   "0", "1", "2", "3", "4", "5", "6", "7", "8", "9"}

\* C1: a successful joinRoom on an active room by a user who is not a member,
\* followed by getRoom, shows that user exactly once, not flagged as host,
\* and every previous entry in its previous order.
C1_JoinThenGet ==
  [][\A i \in ActiveRows(rooms, resp'.code) :
       (/\ resp'.op = "join"
        /\ resp'.status = HTTP_OK
        /\ resp'.user \notin MemberIds(MembersOf(rooms, i)))
       => LET got == get_party_room(rooms', resp'.code)
          IN /\ got.status = HTTP_OK
             /\ got.room # <<>>
             /\ LET after == got.room[1].members
                IN /\ CountOf(after, resp'.user) = 1
                   /\ \A k \in 1..Len(after) :
                        after[k].id = resp'.user => after[k].is_host = FALSE
                   /\ Without(after, resp'.user) = MembersOf(rooms, i)]_vars

\* C1 witness: a third member has just joined a room
C1_Witness ==
  /\ resp.op = "join"
  /\ resp.status = HTTP_OK
  /\ \E i \in ActiveRows(rooms, resp.code) :
       /\ Len(MembersOf(rooms, i)) = 3
       /\ resp.user \in MemberIds(MembersOf(rooms, i))

\* C2: joinRoom on an active room by a user already in its membership list
\* (the host included) fails with 400 and leaves the room's membership list
\* and active flag as they were.
C2_AlreadyMember ==
  [][\A i \in ActiveRows(rooms, resp'.code) :
       (/\ resp'.op = "join"
        /\ resp'.user \in MemberIds(MembersOf(rooms, i)))
       => /\ resp'.status = HTTP_BAD_REQUEST
          /\ Len(rooms') = Len(rooms)
          /\ rooms'[i].members = rooms[i].members
          /\ rooms'[i].is_active = rooms[i].is_active]_vars

\* C2 witness: a non-host member's second join was refused
C2_Witness ==
  /\ resp.op = "join"
  /\ resp.status = HTTP_BAD_REQUEST
  /\ \E i \in ActiveRows(rooms, resp.code) :
       /\ resp.user # rooms[i].host_id
       /\ CountOf(MembersOf(rooms, i), resp.user) = 1
       /\ Len(MembersOf(rooms, i)) >= 2

\* C3: once leaveRoom by the host has succeeded on a room, the room is
\* inactive, and no later joinRoom on that code ends otherwise than with 404.
HostHasLeft(c) ==
  /\ resp.op = "leave"
  /\ resp.code = c
  /\ resp.status = HTTP_OK
  /\ \E i \in RowsWithCode(rooms, c) : rooms[i].host_id = resp.user

JoinNotRefused(c) ==
  /\ resp.op = "join"
  /\ resp.code = c
  /\ resp.status # HTTP_NOT_FOUND

C3_HostLeaveEndsRoom ==
  \A c \in ReqCodes :
    [](HostHasLeft(c) =>
         /\ \A i \in RowsWithCode(rooms, c) : ~rooms[i].is_active
         /\ [](~JoinNotRefused(c)))

\* C3 witness: the host has left a room that listed two other members, and
\* the room is inactive
C3_Witness ==
  /\ \E c \in ReqCodes : HostHasLeft(c)
  /\ \E i \in RowsWithCode(rooms, resp.code) :
       /\ ~rooms[i].is_active
       /\ Len(MembersOf(rooms, i)) = 3

\* C4: leaveRoom on an active room by a member who is not the host keeps the
\* room active and removes exactly that member's one entry; the other
\* entries keep their relative order.
C4_MemberLeaves ==
  [][\A i \in ActiveRows(rooms, resp'.code) :
       (/\ resp'.op = "leave"
        /\ resp'.user # rooms[i].host_id
        /\ resp'.user \in MemberIds(MembersOf(rooms, i)))
       => /\ resp'.status = HTTP_OK
          /\ Len(rooms') = Len(rooms)
          /\ rooms'[i].is_active
          /\ Len(MembersOf(rooms', i)) = Len(MembersOf(rooms, i)) - 1
          /\ MembersOf(rooms', i) = Without(MembersOf(rooms, i), resp'.user)]_vars

\* C4 witness: a member has left a room in which two entries remain
C4_Witness ==
  /\ resp.op = "leave"
  /\ resp.status = HTTP_OK
  /\ \E i \in ActiveRows(rooms, resp.code) :
       /\ Len(MembersOf(rooms, i)) = 2
       /\ resp.user \notin MemberIds(MembersOf(rooms, i))

\* C5: a room that is inactive is never active again, whatever request is
\* served on it or on another room.
C5_InactiveIsTerminal ==
  [][\A i \in 1..Len(rooms) :
       ~rooms[i].is_active
       => /\ i <= Len(rooms')
          /\ rooms'[i].code = rooms[i].code
          /\ ~rooms'[i].is_active]_vars

\* C5 witness: a createRoom was served whose code is that of an inactive
\* room, and the room is still inactive
C5_Witness ==
  /\ resp.op = "create"
  /\ RowsWithCode(rooms, resp.code) # {}
  /\ \A i \in RowsWithCode(rooms, resp.code) : ~rooms[i].is_active

\* C6: when the host leaves an active room, the stored membership list is
\* not modified and still holds the host's entry; only the active flag
\* changes.
C6_HostLeaveKeepsMembers ==
  [][\A i \in ActiveRows(rooms, resp'.code) :
       (/\ resp'.op = "leave"
        /\ resp'.user = rooms[i].host_id)
       => /\ Len(rooms') = Len(rooms)
          /\ rooms'[i].members = rooms[i].members
          /\ rooms[i].host_id \in MemberIds(MembersOf(rooms', i))
          /\ SameButActive(rooms, rooms', i)
          /\ ~rooms'[i].is_active
          /\ \A j \in 1..Len(rooms) : j # i => rooms'[j] = rooms[j]]_vars

\* C6 witness: the host has left a room that listed two other members
C6_Witness ==
  /\ resp.op = "leave"
  /\ resp.status = HTTP_OK
  /\ resp.room = <<>>
  /\ \E i \in RowsWithCode(rooms, resp.code) :
       /\ resp.user = rooms[i].host_id
       /\ ~rooms[i].is_active
       /\ Len(MembersOf(rooms, i)) = 3
       /\ CountOf(MembersOf(rooms, i), resp.user) = 1

\* C7: for a code that matches no room or only an inactive room, getRoom,
\* joinRoom, leaveRoom, syncPlayback and start fail with 404 and leave the
\* stored rooms unchanged.
C7_InactiveInvisible ==
  [][(/\ resp'.op \in {"get", "join", "leave", "sync", "start"}
      /\ ActiveRows(rooms, resp'.code) = {})
     => /\ resp'.status = HTTP_NOT_FOUND
        /\ rooms' = rooms]_vars

\* C7 witness: start was refused on an inactive room
C7_Witness ==
  /\ resp.op = "start"
  /\ resp.status = HTTP_NOT_FOUND
  /\ RowsWithCode(rooms, resp.code) # {}
  /\ ActiveRows(rooms, resp.code) = {}

\* C8: endRoom succeeds whenever a room with the code exists, active or not,
\* leaves it inactive and changes nothing else; a second endRoom yields the
\* same stored state; on a code that matches no room it fails with 404 and
\* changes nothing.
C8_EndRoom ==
  [][resp'.op = "end"
     => IF RowsWithCode(rooms, resp'.code) = {}
        THEN resp'.status = HTTP_NOT_FOUND /\ rooms' = rooms
        ELSE /\ resp'.status = HTTP_OK
             /\ Len(rooms') = Len(rooms)
             /\ \A i \in 1..Len(rooms) :
                  IF rooms[i].code = resp'.code
                  THEN ~rooms'[i].is_active /\ SameButActive(rooms, rooms', i)
                  ELSE rooms'[i] = rooms[i]
             /\ LET again == end_party_room(rooms', resp'.code)
                IN again.status = HTTP_OK /\ again.rooms = rooms']_vars

\* C8 witness: endRoom has ended a room with three members
C8_Witness ==
  /\ resp.op = "end"
  /\ resp.status = HTTP_OK
  /\ \E i \in RowsWithCode(rooms, resp.code) :
       ~rooms[i].is_active /\ Len(MembersOf(rooms, i)) = 3

\* C9: a createRoom that succeeds returns an active room whose host_id is the
\* requested host, whose code has exactly 6 characters of A-Z and 0-9, and
\* whose membership list is exactly one entry: the host, flagged is_host.
C9_CreateRoom ==
  (resp.op = "create" /\ resp.status = HTTP_OK)
  => /\ Len(resp.room) = 1
     /\ LET room == resp.room[1]
        IN /\ room.is_active = TRUE
           /\ room.host_id = resp.user
           /\ Len(room.code) = 6
           /\ \A k \in 1..Len(room.code) : room.code[k] \in AZ09
           /\ Len(room.members) = 1
           /\ room.members[1].id = resp.user
           /\ room.members[1].is_host = TRUE
           /\ \E i \in ActiveRows(rooms, room.code) :
                RoomView(rooms, i) = room

\* C9 witness: a room has just been created
C9_Witness ==
  /\ resp.op = "create"
  /\ resp.status = HTTP_OK
  /\ resp.room # <<>>

\* C10: in every reachable state, whatever createRoom, joinRoom, leaveRoom
\* and endRoom requests were served and however their queries and commits on
\* one room interleaved, no membership list holds two entries with the same
\* member id.
C10_UniqueMembers ==
  \A i \in 1..Len(rooms) :
    LET members == MembersOf(rooms, i)
    IN \A k, l \in 1..Len(members) :
         k # l => members[k].id # members[l].id

\* C10 witness: a join by a user has been committed while another worker
\* still holds a join by the same user on the same room, staged from a list
\* that did not hold the user
C10_Witness ==
  /\ resp.op = "join"
  /\ resp.status = HTTP_OK
  /\ \E w \in Workers :
       /\ sessions[w].op = "join"
       /\ sessions[w].code = resp.code
       /\ sessions[w].user = resp.user
  /\ \E i \in ActiveRows(rooms, resp.code) :
       /\ resp.user \in MemberIds(MembersOf(rooms, i))
       /\ Len(MembersOf(rooms, i)) = 3

\* C11: when two joinRoom requests for distinct users on the same active room
\* have both read the membership list before either wrote it back, both are
\* answered with success and the stored list holds only the user of the
\* request that committed last: the commit of a join staged from a list read
\* before another join's write drops that other join's user.
C11_LostUpdate ==
  [][\A w \in Workers :
       (/\ sessions[w].op = "join"
        /\ sessions'[w] = Idle
        /\ resp.op = "join"
        /\ resp.status = HTTP_OK
        /\ resp.code = sessions[w].code
        /\ resp.user # sessions[w].user
        /\ sessions[w].st.write.id \in ActiveRows(rooms, resp.code)
        /\ resp.user \in MemberIds(MembersOf(rooms, sessions[w].st.write.id))
        /\ resp.user \notin
             MemberIds(json_loads(sessions[w].st.write.set_members[1])))
       => /\ resp'.op = "join"
          /\ resp'.status = HTTP_OK
          /\ resp'.user = sessions[w].user
          /\ {<<resp.code, resp.user>>, <<resp.code, resp'.user>>} \subseteq joined'
          /\ resp'.user \in MemberIds(MembersOf(rooms', sessions[w].st.write.id))
          /\ resp.user \notin MemberIds(MembersOf(rooms', sessions[w].st.write.id))
    ]_vars

\* C11 witness: two distinct users have both been told that they joined an
\* active room, the stored list of that room holds only one of them
C11_Witness ==
  /\ resp.op = "join"
  /\ resp.status = HTTP_OK
  /\ \E i \in ActiveRows(rooms, resp.code) :
       \E lost \in UserIds :
         /\ lost # resp.user
         /\ {<<resp.code, lost>>, <<resp.code, resp.user>>} \subseteq joined
         /\ resp.user \in MemberIds(MembersOf(rooms, i))
         /\ lost \notin MemberIds(MembersOf(rooms, i))

\* C12: once the active flag of a room is false its stored membership list
\* never changes again, whatever join or non-host leave was staged before the
\* room ended and commits after it.
C12_FrozenAfterEnd ==
  [][\A i \in 1..Len(rooms) :
       ~rooms[i].is_active => rooms'[i].members = rooms[i].members]_vars

\* C13: a createRoom whose drawn code is already carried by a room draws
\* another code and still succeeds: it stores a new room under a code that no
\* earlier room carries.
C13_CollisionRetry ==
  [][(resp'.op = "create" /\ RowsWithCode(rooms, resp'.code) # {})
     => /\ resp'.status = HTTP_OK
        /\ Len(rooms') = Len(rooms) + 1
        /\ RowsWithCode(rooms, rooms'[Len(rooms')].code) = {}]_vars

\* ---------------------------- vocabulary of the recommendation claims
\* the tmdb ids the collection holds
OwnedIds == {user_movies[k].tmdb_id[1] :
               k \in {i \in 1..Len(user_movies) : user_movies[i].tmdb_id # <<>>}}

\* the recommendations of the answer, <<>> while there is none
Returned == IF rec_resp = <<>> THEN <<>> ELSE rec_resp[1].recommendations

IdsOf(recs) == {recs[k].id : k \in 1..Len(recs)}

FromFallback(rec) == rec.recommendation_reason = <<"Critically acclaimed">>
FromGenrePass(rec) == rec.recommendation_reason[1] = "Popular"

FallbackCalled ==
  \E k \in 1..Len(calls) : calls[k][1] = "get_highly_rated_movies"

\* the rows of the collection whose genre is a genre string the engine
\* reads, and all rows
UsableRows == {i \in 1..Len(user_movies) : has_genre(user_movies[i])}
AllRows == 1..Len(user_movies)

\* the tokens of the genre string of row i
TokensAt(i) == genres_of(user_movies[i].genre)

\* where the rows in rs carry the token tok: <<row, position in the row>>
Occurrences(rs, tok) ==
  UNION {{<<i, k>> : k \in {j \in 1..Len(TokensAt(i)) : TokensAt(i)[j] = tok}} :
           i \in rs}

TokensOf(rs) ==
  UNION {{TokensAt(i)[k] : k \in 1..Len(TokensAt(i))} : i \in rs}

\* a occurs before b does
FirstBefore(rs, a, b) ==
  \E o \in Occurrences(rs, a) :
    \A q \in Occurrences(rs, b) :
      o[1] < q[1] \/ (o[1] = q[1] /\ o[2] < q[2])

\* a ranks before b: more occurrences, or as many and an earlier first one
RanksBefore(rs, a, b) ==
  \/ Cardinality(Occurrences(rs, a)) > Cardinality(Occurrences(rs, b))
  \/ /\ Cardinality(Occurrences(rs, a)) = Cardinality(Occurrences(rs, b))
     /\ FirstBefore(rs, a, b)

\* tok holds no comma and neither starts nor ends with a blank
Trimmed(tok) ==
  /\ \A k \in 1..Len(tok) : tok[k] # ","
  /\ tok # <<>> => tok[1] # " " /\ tok[Len(tok)] # " "

\* top lists, with their counts over the rows in rs, the 3 tokens that rank
\* first (all of them when there are fewer), in rank order
IsTop3(top, rs) ==
  /\ Len(top) = (IF Cardinality(TokensOf(rs)) < 3
                 THEN Cardinality(TokensOf(rs)) ELSE 3)
  /\ \A k \in 1..Len(top) :
       /\ top[k][1] \in TokensOf(rs)
       /\ Trimmed(top[k][1])
       /\ top[k][2] = Cardinality(Occurrences(rs, top[k][1]))
  /\ \A k, l \in 1..Len(top) : k < l => RanksBefore(rs, top[k][1], top[l][1])
  /\ \A tok \in TokensOf(rs) \ {top[k][1] : k \in 1..Len(top)} :
       \A k \in 1..Len(top) : RanksBefore(rs, top[k][1], tok)

\* the genre ids the discovery method was called with in cs, in call order
QueriedWith(cs, method) ==
  LET made == SelectSeq(cs, LAMBDA c : c[1] = method)
  IN [k \in 1..Len(made) |-> made[k][2]]

\* the ids of those genres of top that TMDB_GENRE_IDS knows, in order
KnownIds(top) ==
  LET ids == [k \in 1..Len(top) |-> genre_id_of(top[k][1])]
  IN SelectSeq(ids, LAMBDA id : id # 0)

IsPrefix(s, t) == Len(s) <= Len(t) /\ s = SubSeq(t, 1, Len(s))

\* the genres queried in cs are leading genres of top that the table knows
QueriedFrom(top, cs) ==
  /\ IsPrefix(QueriedWith(cs, "discover_by_genre"), KnownIds(top))
  /\ QueriedWith(cs, "discover_tv_by_genre") = QueriedWith(cs, "discover_by_genre")

BothDiscoveries == {"discover_by_genre", "discover_tv_by_genre"}

\* C14: no recommendation, staged or returned, from a genre pass or from the
\* fallback list, carries the tmdb_id of a row of the collection.
C14_NotInCollection ==
  /\ IdsOf(recommendations) \cap OwnedIds = {}
  /\ IdsOf(Returned) \cap OwnedIds = {}

\* C14 witness: the fallback list held an id of the collection and the
\* answer carries a recommendation from the fallback list
C14_Witness ==
  /\ rec_pc = "done"
  /\ FallbackCalled
  /\ offered \cap OwnedIds # {}
  /\ \E k \in 1..Len(Returned) : FromFallback(Returned[k])

\* C15: no two recommendations, staged or returned, carry the same id,
\* whatever ids the movie and show results of a genre, the results of
\* different genres and the fallback list share.
C15_DistinctIds ==
  /\ \A k, l \in 1..Len(recommendations) :
       k # l => recommendations[k].id # recommendations[l].id
  /\ \A k, l \in 1..Len(Returned) :
       k # l => Returned[k].id # Returned[l].id

\* C15 witness: the answer carries two recommendations staged by the passes
\* of two genres, and the results of the second genre held the id of the
\* recommendation staged for the first
C15_Witness ==
  /\ rec_pc = "done"
  /\ Len(Returned) = 2
  /\ FromGenrePass(Returned[1])
  /\ FromGenrePass(Returned[2])
  /\ Returned[1].recommendation_reason[2] # Returned[2].recommendation_reason[2]
  /\ Returned[1].id \in offered

\* C16: with an empty collection the request makes no call to the TMDB
\* service, neither a genre discovery nor the fallback list, and answers
\* with no recommendation and the add-movies message.
C16_EmptyCollection ==
  user_movies = <<>>
  => /\ calls = <<>>
     /\ rec_pc \in {"request", "done"}
     /\ rec_pc = "done"
        => /\ rec_resp[1].recommendations = <<>>
           /\ rec_resp[1].message = ADD_MOVIES
           /\ rec_resp[1].status = HTTP_OK

\* C16 witness: a request on an empty collection has been answered
C16_Witness ==
  /\ user_movies = <<>>
  /\ rec_pc = "done"
  /\ rec_resp # <<>>

\* C17 as stated: the histogram counts the tokens of every row's genre
\* string, split on commas and trimmed, and the genres queried are the 3
\* tokens with the highest counts, in descending count order, equal counts
\* in order of first occurrence.
C17_AllRows ==
  [][/\ rec_pc = "request" => IsTop3(top_genres', AllRows)
     /\ rec_pc # "request" => top_genres' = top_genres
     /\ QueriedFrom(top_genres', calls')]_vars

\* C17 amended: the histogram counts the tokens, split on commas and
\* trimmed, of the genre string of every row whose genre is neither empty
\* nor exactly "Not specified"; the genres the request picks are the 3
\* tokens with the highest counts (all when fewer), in descending count
\* order, equal counts in order of first occurrence, and the genres queried
\* are, in that order, leading ones of them that TMDB_GENRE_IDS knows.
C17_TopGenres ==
  [][/\ rec_pc = "request" => IsTop3(top_genres', UsableRows)
     /\ rec_pc # "request" => top_genres' = top_genres
     /\ QueriedFrom(top_genres', calls')]_vars

\* C17 witness: top_genres holds a genre counted twice ahead of genres
\* counted once, a token counted once is left out, and a genre has been
\* queried
C17_Witness ==
  /\ Len(top_genres) = 3
  /\ top_genres[1][2] = 2
  /\ top_genres[3][2] = 1
  /\ \E tok \in TokensOf(UsableRows) :
       /\ \A k \in 1..Len(top_genres) : top_genres[k][1] # tok
       /\ Cardinality(Occurrences(UsableRows, tok)) = 1
  /\ calls # <<>>

\* C18: for every max_results >= 0, once the number of staged
\* recommendations has reached max_results no recommendation is staged and
\* no call is made to the TMDB service, and the answer never carries more
\* than max_results recommendations.
C18_StopsAtMax ==
  [][/\ Len(recommendations) >= max_results
        => recommendations' = recommendations /\ calls' = calls
     /\ rec_resp' # <<>>
        => Len(rec_resp'[1].recommendations) <= max_results]_vars

\* C19: for a non-empty collection, an answer whose genre passes staged
\* fewer than max_results recommendations has asked for the fallback list,
\* and its recommendations from that list are neither in the collection nor
\* staged twice.
C19_PaddedFromFallback ==
  (/\ rec_pc = "done"
   /\ user_movies # <<>>
   /\ Cardinality({k \in 1..Len(recommendations) :
                     FromGenrePass(recommendations[k])}) < max_results)
  => /\ FallbackCalled
     /\ \A k \in 1..Len(recommendations) :
          FromFallback(recommendations[k])
          => /\ recommendations[k].id \notin OwnedIds
             /\ \A l \in 1..Len(recommendations) :
                  l # k => recommendations[l].id # recommendations[k].id

C28_EndHostOnly ==
  [][\A i \in 1..Len(rooms) :
       (/\ resp'.op = "end"
        /\ resp'.code = rooms[i].code
        /\ resp'.user # rooms[i].host_id)
       => rooms'[i].is_active = rooms[i].is_active]_vars

\* C29: no two stored rooms carry the same code: a createRoom whose drawn
\* code is carried by a stored room, active or not, fails with an error and
\* leaves the stored rooms and every field of each as they were.
C29_UniqueCodes ==
  [][/\ \A i, j \in 1..Len(rooms') : i # j => rooms'[i].code # rooms'[j].code
     /\ (resp'.op = "create" /\ RowsWithCode(rooms, resp'.code) # {})
        => /\ resp'.status = HTTP_ERROR
           /\ resp'.room = <<>>
           /\ rooms' = rooms]_vars

\* C29 witness: a createRoom has failed on the code of a room that is no
\* longer active
C29_Witness ==
  /\ resp.op = "create"
  /\ resp.status = HTTP_ERROR
  /\ RowsWithCode(rooms, resp.code) # {}
  /\ ActiveRows(rooms, resp.code) = {}

\* C30: every stored room, active or not, however the queries and commits of
\* createRoom, joinRoom, leaveRoom and endRoom interleaved, lists exactly one
\* entry flagged is_host, that entry carries the room's host_id, and it is
\* the first entry of the list.
C30_OneHostFirst ==
  \A i \in 1..Len(rooms) :
    LET members == MembersOf(rooms, i)
    IN /\ {k \in 1..Len(members) : members[k].is_host} = {1}
       /\ members[1].id = rooms[i].host_id

\* C30 witness: a join staged while the room was active has been committed
\* after the room ended, and the room lists the host and another member
C30_Witness ==
  /\ resp.op = "join"
  /\ resp.status = HTTP_OK
  /\ \E i \in RowsWithCode(rooms, resp.code) :
       /\ ~rooms[i].is_active
       /\ Len(MembersOf(rooms, i)) >= 2
       /\ resp.user \in MemberIds(MembersOf(rooms, i))

\* ------------------------------------- claims on the media collection
\* the stored item a request addresses
Stored(ms, movie_id) == \E k \in 1..Len(ms) : ms[k].id = movie_id

RowOf(ms, movie_id) == ms[CHOOSE k \in 1..Len(ms) : ms[k].id = movie_id]

InRange(r) == 0 <= r /\ r <= 10

\* the step serves a request of the kind op
Served(op) == media_resp'.op = op

\* C21: a rating update on a stored item with a value outside [0, 10] is
\* answered 400 and leaves the item's rating and review as they were; with a
\* value inside [0, 10] it is answered 200 and the stored rating is the
\* submitted value.
C21_RatingUpdate ==
  [][(/\ Served("update_rating_review")
      /\ Stored(db_movies, media_resp'.movie_id)
      /\ media_resp'.body.rating # NONE)
     => LET id == media_resp'.movie_id
            r == media_resp'.body.rating[1]
        IN IF InRange(r)
           THEN /\ media_resp'.status = HTTP_OK
                /\ RowOf(db_movies', id).rating = <<r>>
           ELSE /\ media_resp'.status = HTTP_BAD_REQUEST
                /\ Stored(db_movies', id)
                /\ RowOf(db_movies', id).rating = RowOf(db_movies, id).rating
                /\ RowOf(db_movies', id).review = RowOf(db_movies, id).review]_vars

\* a rated item without a review was sent a rating outside [0, 10] with a review
C21_Witness ==
  /\ media_resp.op = "update_rating_review"
  /\ media_resp.status = HTTP_BAD_REQUEST
  /\ media_resp.body.rating # NONE
  /\ media_resp.body.review # NONE
  /\ Stored(db_movies, media_resp.movie_id)
  /\ RowOf(db_movies, media_resp.movie_id).rating # NONE
  /\ RowOf(db_movies, media_resp.movie_id).review = NONE

\* C22: every stored item's rating is absent or within [0, 10].
C22_RatingInRange ==
  \A k \in 1..Len(db_movies) :
    db_movies[k].rating = NONE \/ InRange(db_movies[k].rating[1])

\* the status the episode count n stands for on an item of total episodes
ExpectedStatus(n, total) ==
  CASE n = 0 -> "wishlist"
    [] n # 0 /\ n >= total -> "completed"
    [] OTHER -> "watching"

\* the episode count an update request carries, null counting as 0
EpisodesOf(body) ==
  IF body["episodes_watched"] = NONE THEN 0 ELSE body["episodes_watched"][1]

\* the status the item has after an update that does not derive it
UnderivedStatus(row, body) ==
  IF "status" \in DOMAIN body THEN body["status"] ELSE row.status

\* the step is an update_movie that stored an episode count on a stored item
EpisodeUpdate ==
  /\ Served("update_movie")
  /\ media_resp'.status = HTTP_OK
  /\ "episodes_watched" \in DOMAIN media_resp'.body
  /\ Stored(db_movies, media_resp'.movie_id)

\* C23 as stated: on a TV show whose total_episodes is set, update_movie with
\* episodes_watched = n sets the status to wishlist (n = 0), completed
\* (n >= total_episodes) or watching, and minutes_watched to 20*n, whatever
\* status or minutes the request carries; on any other item the status is
\* not derived.
C23_EpisodeDerived ==
  [][EpisodeUpdate
     => LET old == RowOf(db_movies, media_resp'.movie_id)
            new == RowOf(db_movies', media_resp'.movie_id)
            n == EpisodesOf(media_resp'.body)
        IN IF old.is_tv_show /\ old.total_episodes # NONE
           THEN /\ new.status = <<ExpectedStatus(n, old.total_episodes[1])>>
                /\ new.minutes_watched = <<20 * n>>
           ELSE new.status = UnderivedStatus(old, media_resp'.body)]_vars

\* C23 amended: the status is derived on a TV show whose total_episodes is
\* set and not zero; on a film, and on a show whose total_episodes is absent
\* or zero, the status is the request's own, or the stored one.
C23_EpisodeDerivedNonZero ==
  [][EpisodeUpdate
     => LET old == RowOf(db_movies, media_resp'.movie_id)
            new == RowOf(db_movies', media_resp'.movie_id)
            n == EpisodesOf(media_resp'.body)
        IN IF old.is_tv_show /\ old.total_episodes # NONE /\ old.total_episodes # <<0>>
           THEN /\ new.status = <<ExpectedStatus(n, old.total_episodes[1])>>
                /\ new.minutes_watched = <<20 * n>>
           ELSE new.status = UnderivedStatus(old, media_resp'.body)]_vars

\* a show of two episodes was sent its last episode with a status and a
\* minute count of the client's own, and holds the derived ones
C23_Witness ==
  /\ media_resp.op = "update_movie"
  /\ media_resp.status = HTTP_OK
  /\ DOMAIN media_resp.body = {"episodes_watched", "status", "minutes_watched"}
  /\ Stored(db_movies, media_resp.movie_id)
  /\ LET row == RowOf(db_movies, media_resp.movie_id)
     IN /\ row.is_tv_show
        /\ row.total_episodes = <<2>>
        /\ row.status = <<"completed">>
        /\ row.status # media_resp.body["status"]
        /\ row.minutes_watched = <<40>>

\* C24: every stored item's episodes_watched and minutes_watched are
\* integers, not null and not negative.
C24_CountersNonNegative ==
  \A k \in 1..Len(db_movies) :
    /\ db_movies[k].episodes_watched # NONE
    /\ db_movies[k].minutes_watched # NONE
    /\ db_movies[k].episodes_watched[1] >= 0
    /\ db_movies[k].minutes_watched[1] >= 0

\* C25: update_movie, update_rating_review and delete_movie addressed to an
\* id that is not stored are answered 404 and leave the table unchanged.
C25_NotFound ==
  [][(/\ \/ Served("update_movie")
         \/ Served("update_rating_review")
         \/ Served("delete_movie")
      /\ ~Stored(db_movies, media_resp'.movie_id))
     => /\ media_resp'.status = HTTP_NOT_FOUND
        /\ db_movies' = db_movies]_vars

\* the tmdb_id a create or add request names, <<>> when it names none
NamedTmdbId(r) ==
  IF r.op = "add_movie_from_tmdb" THEN <<r.body.tmdb_id>>
  ELSE IF r.op = "create_movie" THEN r.body.tmdb_id
  ELSE NONE

\* C26: an add or a create that names the tmdb_id of a stored item is
\* refused with 400 and leaves the table unchanged, and no two stored items
\* share a tmdb_id that is not null.
C26_NoDuplicateTmdbId ==
  [][/\ (/\ NamedTmdbId(media_resp') # NONE
         /\ \E k \in 1..Len(db_movies) : db_movies[k].tmdb_id = NamedTmdbId(media_resp'))
        => /\ media_resp'.status = HTTP_BAD_REQUEST
           /\ db_movies' = db_movies
     /\ \A i, j \in 1..Len(db_movies') :
          (i # j /\ db_movies'[i].tmdb_id # NONE)
          => db_movies'[i].tmdb_id # db_movies'[j].tmdb_id]_vars

\* --------------------------------------------- claims on the TMDB cache
\* the age of the entry under key k
AgeOf(k) == now - cache[k][1].cache_time

\* C27: a lookup whose key has an entry younger than one hour returns the
\* entry's data, does not call TMDB and leaves the cache as it is; a lookup
\* whose key has an entry one hour old or older calls TMDB and, when TMDB
\* answers 200, stores the answer under the key with the time of the call.
C27_CacheTtl ==
  [][(lookup'.op = "discover_by_genre" /\ now' = now /\ cache[lookup'.key] # NONE)
     => LET k == lookup'.key
        IN IF AgeOf(k) < 60
           THEN /\ lookup'.returned = cache[k][1].data
                /\ ~lookup'.called
                /\ cache' = cache
           ELSE /\ lookup'.called
                /\ lookup'.response[1].status_code = 200
                   => /\ cache'[k] = <<[cache_time |-> now,
                                        data |-> lookup'.response[1].results]>>
                      /\ lookup'.returned = lookup'.response[1].results
                      /\ \A o \in CacheKeys \ {k} : cache'[o] = cache[o]]_vars

\* a lookup found an entry exactly one hour old holding other data, called
\* TMDB, and the entry now holds the answer and the time of the call
C27_Witness ==
  /\ lookup.op = "discover_by_genre"
  /\ lookup.found # NONE
  /\ now - lookup.found[1].cache_time = 60
  /\ lookup.called
  /\ lookup.response[1].status_code = 200
  /\ lookup.response[1].results # lookup.found[1].data
  /\ cache[lookup.key] = <<[cache_time |-> now, data |-> lookup.response[1].results]>>
====
